---- MODULE Spec2Model ----
(***************************************************************************)
(* A model of the risk-control kernel of atrx-demo:                        *)
(*   src/src/modules/risk_manager.py     (class RiskManager)               *)
(*   src/src/modules/prop_firm_risk.py   (class PropFirmRiskManager)       *)
(*                                                                         *)
(* Number representation.  The program computes in IEEE doubles; the model *)
(* computes exactly:                                                       *)
(*   - money (equity, balance, capital) is an integer number of account    *)
(*     currency units;                                                     *)
(*   - a fraction of capital (risk_pct, a drawdown ceiling) is an integer  *)
(*     number of basis points, 1 = 0.0001;                                 *)
(*   - a drawdown is the exact rational <<num, den>>, den > 0;             *)
(*   - a lot volume is an integer number of milli-lots, 1 = 0.001 lot, or  *)
(*     an exact rational number of lots <<num, den>> before rounding.      *)
(* For integer capital below 2^53 the subtraction peak - current is exact  *)
(* and the division is correctly rounded, and the thresholds 0.038, 0.08,  *)
(* 0.08*0.5, 0.08*0.75 and 0.08*0.95 evaluate to the doubles nearest to    *)
(* 0.038, 0.08, 0.04, 0.06 and 0.076, so every comparison of a drawdown    *)
(* with a threshold has the outcome of the exact comparison modelled here. *)
(***************************************************************************)
EXTENDS Integers, Sequences, FiniteSets, TLC

VARIABLES
    state,            \* RiskManager.state (the in-memory RiskState dict)
    state_file,       \* what is on disk at RiskManager.state_file
    today,            \* datetime.now(LAGOS_TZ).date(), as a day number
    faults,           \* how many more writes the environment lets fail
    phase,            \* PropFirmRiskManager.phase
    initial_balance,  \* PropFirmRiskManager.initial_balance
    high_water_mark,  \* PropFirmRiskManager.high_water_mark
    open_positions,   \* PropFirmRiskManager.open_positions (dict, in order)
    daily_pnl,        \* PropFirmRiskManager._daily_pnl
    last              \* the last call made: its name, arguments and result

vars == <<state, state_file, today, faults, phase, initial_balance,
          high_water_mark, open_positions, daily_pnl, last>>

rm_vars == <<state, state_file, today, faults>>
pf_vars == <<phase, initial_balance, high_water_mark, open_positions, daily_pnl>>

-----------------------------------------------------------------------------
(* Bounds of the model *)

\* tickets are 1..MaxTicket
MaxTicket == 2
\* a risk fraction registered for a ticket is k * RiskStep basis points, k in 0..MaxRiskSteps
MaxRiskSteps == 1
\* days are 0..MaxDay
MaxDay == 1
\* the environment lets at most MaxFaults persistence writes fail in a run
MaxFaults == 1
\* equities are sampled within Slack units of every drawdown threshold
Slack == 1
\* PropFirmRiskManager tracks tickets 1..MaxPositions
MaxPositions == 2
\* the correlation guard is asked about scaling with tickets 1..MaxHeld tracked
MaxHeld == 3
\* _daily_pnl stays within -MaxPnl..MaxPnl
MaxPnl == 1
\* the reference capital is 500 * CapitalScale: the smallest capitals of which
\* every threshold of the program (1%, 2%, 3%, 3.8%, 4%, 6%, 7.6%, 8%) is a
\* whole number of units
CapitalScale == 1

-----------------------------------------------------------------------------
(* Exact rationals <<num, den>> with den > 0 *)

RatLT(a, b) == a[1] * b[2] < b[1] * a[2]
RatGE(a, b) == ~RatLT(a, b)
RatGT(a, b) == RatLT(b, a)
RatLE(a, b) == ~RatLT(b, a)
\* Python's min(a, b) and max(a, b): the first argument unless the second is
\* strictly smaller (larger)
RatMin(a, b) == IF RatLT(b, a) THEN b ELSE a
RatMax(a, b) == IF RatGT(b, a) THEN b ELSE a
\* k basis points as a rational
Bp(k) == <<k, 10000>>

-----------------------------------------------------------------------------
(* A Python dict as the sequence of its <<key, value>> items in insertion order *)

dict_keys(d) == {d[i][1] : i \in 1..Len(d)}
dict_get(d, k, dflt) ==
    IF k \in dict_keys(d)
    THEN (CHOOSE it \in {d[i] : i \in 1..Len(d)} : it[1] = k)[2]
    ELSE dflt
\* d[k] = v: an existing key keeps its place, a new key goes last
dict_set(d, k, v) ==
    IF k \in dict_keys(d)
    THEN [i \in 1..Len(d) |-> IF d[i][1] = k THEN <<k, v>> ELSE d[i]]
    ELSE Append(d, <<k, v>>)
\* d.pop(k, None)
dict_pop(d, k) == SelectSeq(d, LAMBDA it : it[1] # k)
\* sum(d.values()): a left-to-right sum starting from 0
RECURSIVE dict_sum(_)
dict_sum(d) == IF d = <<>> THEN 0 ELSE dict_sum(SubSeq(d, 1, Len(d) - 1)) + d[Len(d)][2]

\* {**a, **b} on records seen as functions from field names
dict_merge(a, b) ==
    [k \in (DOMAIN a) \cup (DOMAIN b) |-> IF k \in DOMAIN b THEN b[k] ELSE a[k]]
\* data.get(k, dflt) on a record
rec_get(r, k, dflt) == IF k \in DOMAIN r THEN r[k] ELSE dflt

-----------------------------------------------------------------------------
(* RiskManager: configuration *)

\* __init__ defaults, in basis points
max_daily_drawdown == 380
max_total_drawdown == 800
max_leverage == 30

\* float("inf"), the bound of the last tier: the rational 1/0, which every
\* <<num, den>> with den > 0 is below
INF == <<1, 0>>
\* DD_RISK_TIERS: (drawdown bound in percent, multiplier in hundredths)
DD_RISK_TIERS == << <<<<1, 1>>, 100>>, <<<<2, 1>>, 75>>, <<<<3, 1>>, 50>>, <<INF, 25>> >>

-----------------------------------------------------------------------------
(* RiskManager: state persistence *)

\* str(ticket), the ledger's key
str(ticket) == ToString(ticket)

\* Python values in memory: a float or int is the number, a dict is the
\* sequence of its items, a str is its text, None is the record below.
None == [py |-> "NoneType"]

\* repr of a non-negative whole number: its decimal digits
RECURSIVE digits_of(_)
digits_of(n) == IF n < 10 THEN <<n>> ELSE Append(digits_of(n \div 10), n % 10)
\* the number a digit sequence denotes
RECURSIVE value_of(_)
value_of(ds) ==
    IF ds = <<>> THEN 0 ELSE value_of(SubSeq(ds, 1, Len(ds) - 1)) * 10 + ds[Len(ds)]
\* float.__repr__, as the encoder writes a number: a sign and digits
float_repr(x) == [neg |-> x < 0, digits |-> digits_of(IF x < 0 THEN 0 - x ELSE x)]
\* the number the decoder reads from such text
parse_number(text) ==
    IF text.neg THEN 0 - value_of(text.digits) ELSE value_of(text.digits)

\* datetime.now(LAGOS_TZ).isoformat() on day now, and the day
\* datetime.fromisoformat(text).astimezone(LAGOS_TZ).date() reads back
isoformat(now) == digits_of(now)
fromisoformat(text) == value_of(text)

\* JSON values as they stand in the file
JNumber(x) == [json |-> "number", text |-> float_repr(x)]
JString(text) == [json |-> "string", text |-> text]
JNull == [json |-> "null"]
JObject(members) == [json |-> "object", members |-> members]

\* the encoder on a dict of numbers: the keys are str already and are written as they are
encode_ledger(d) == JObject([i \in 1..Len(d) |-> <<d[i][1], JNumber(d[i][2])>>])
\* the decoder on one value
RECURSIVE decode(_)
decode(v) ==
    CASE v.json = "number" -> parse_number(v.text)
      [] v.json = "string" -> v.text
      [] v.json = "object" ->
             [i \in 1..Len(v.members) |-> <<v.members[i][1], decode(v.members[i][2])>>]
      [] OTHER -> None

default_state(now) ==
    [current_capital |-> 0, peak_capital |-> 0, daily_start_capital |-> 0,
     open_risk_pct |-> 0, open_risk_by_ticket |-> <<>>, timestamp |-> isoformat(now)]

\* The state file: absent, a complete JSON document (data: the members of its
\* top-level object), or text that is not a JSON document (an empty or
\* cut-off write).
NoFile == [kind |-> "absent"]
JsonFile(data) == [kind |-> "json", data |-> data]
PartialFile == [kind |-> "partial"]

\* json.dump(self.state, f, indent=2, default=str)
json_dump(s) ==
    JsonFile([current_capital |-> JNumber(s.current_capital),
              peak_capital |-> JNumber(s.peak_capital),
              daily_start_capital |-> JNumber(s.daily_start_capital),
              open_risk_pct |-> JNumber(s.open_risk_pct),
              open_risk_by_ticket |-> encode_ledger(s.open_risk_by_ticket),
              timestamp |-> JString(s.timestamp)])
\* json.load(f) on a complete document
json_load(f) == [k \in DOMAIN f.data |-> decode(f.data[k])]

\* the try block of _load_state raises: json.load on text that is no document,
\* data["timestamp"] on a document without the member, fromisoformat on a value
\* that is not a str
load_raises(f) ==
    \/ f.kind # "json"
    \/ "timestamp" \notin DOMAIN f.data
    \/ f.data.timestamp.json # "string"

\* _load_state with the daily reset also on the day of the record
_load_state_eager(f, now) ==
    IF f.kind = "absent" THEN default_state(now)
    ELSE IF load_raises(f) THEN default_state(now)
    ELSE LET data == json_load(f)
             rolled ==
                 IF fromisoformat(data.timestamp) <= now
                 THEN dict_merge(data,
                          [daily_start_capital |-> rec_get(data, "current_capital", 0),
                           open_risk_pct |-> 0,
                           open_risk_by_ticket |-> <<>>])
                 ELSE data
         IN dict_merge(default_state(now), rolled)

\* _load_state: the state __init__ starts from
_load_state(f, now) ==
    IF f.kind = "absent" THEN default_state(now)
    ELSE IF load_raises(f) THEN default_state(now)         \* except Exception
    ELSE LET data == json_load(f)
             rolled ==
                 IF fromisoformat(data.timestamp) < now
                 THEN dict_merge(data,
                          [daily_start_capital |-> rec_get(data, "current_capital", 0),
                           open_risk_pct |-> 0,
                           open_risk_by_ticket |-> <<>>])
                 ELSE data
         IN dict_merge(default_state(now), rolled)

\* the f-string of __init__ formats current_capital and peak_capital with
\* :.2f, which raises on a value that is not a number
init_raises(f) ==
    /\ f.kind = "json"
    /\ ~load_raises(f)
    /\ \E k \in {"current_capital", "peak_capital"} :
           k \in DOMAIN f.data /\ f.data[k].json # "number"

\* What a write can do: succeed; fail in open(), leaving the file as it was;
\* fail after open(..., "w") truncated the file, leaving a cut-off document.
WriteOutcomes(budget) == IF budget > 0 THEN {"ok", "open_failed", "write_failed"} ELSE {"ok"}

\* save_state without its try/except: a failed write propagates to the caller
save_state_unguarded(s, f, now, outcome) ==
    LET s1 == [s EXCEPT !.timestamp = isoformat(now)] IN
    [state |-> s1,
     file |-> CASE outcome = "ok" -> json_dump(s1)
                [] outcome = "open_failed" -> f
                [] OTHER -> PartialFile,
     raised |-> outcome # "ok"]

\* save_state: the in-memory state and the file afterwards, and whether an
\* exception leaves the method (except Exception catches what open and
\* json.dump raise)
save_state(s, f, now, outcome) ==
    LET s1 == [s EXCEPT !.timestamp = isoformat(now)] IN
    [state |-> s1,
     file |-> CASE outcome = "ok" -> json_dump(s1)
                [] outcome = "open_failed" -> f
                [] OTHER -> PartialFile,
     raised |-> FALSE]

-----------------------------------------------------------------------------
(* RiskManager: drawdown calculations *)

get_drawdown_pct(s) ==
    LET peak == s.peak_capital IN
    IF peak <= 0 THEN <<0, 1>>
    ELSE RatMax(<<0, 1>>, <<peak - s.current_capital, peak>>)

get_daily_drawdown_pct(s) ==
    LET start == s.daily_start_capital IN
    IF start <= 0 THEN <<0, 1>>
    ELSE RatMax(<<0, 1>>, <<start - s.current_capital, start>>)

\* the loop over DD_RISK_TIERS from tier i on
RECURSIVE tier_scan(_, _)
tier_scan(dd_pct, i) ==
    IF i > Len(DD_RISK_TIERS) THEN 25              \* the fallback after the loop
    ELSE IF RatLT(dd_pct, DD_RISK_TIERS[i][1]) THEN DD_RISK_TIERS[i][2]
    ELSE tier_scan(dd_pct, i + 1)

\* get_risk_multiplier with the drawdown fraction scaled by 10, not by 100
get_risk_multiplier_misscaled(s) ==
    LET dd == get_drawdown_pct(s)
        dd_pct == <<dd[1] * 10, dd[2]>>
    IN tier_scan(dd_pct, 1)

\* get_risk_multiplier, in hundredths
get_risk_multiplier(s) ==
    LET dd == get_drawdown_pct(s)
        dd_pct == <<dd[1] * 100, dd[2]>>
    IN tier_scan(dd_pct, 1)

\* check_circuit_breakers with the ceilings themselves still tradable
check_circuit_breakers_strict(s) ==
    LET daily_dd == get_daily_drawdown_pct(s)
        total_dd == get_drawdown_pct(s)
    IN IF RatGT(daily_dd, Bp(max_daily_drawdown)) THEN <<FALSE, "DAILY DD LIMIT">>
       ELSE IF RatGT(total_dd, Bp(max_total_drawdown)) THEN <<FALSE, "TOTAL DD LIMIT">>
       ELSE <<TRUE, "OK">>

\* check_circuit_breakers: (can_trade, reason)
check_circuit_breakers(s) ==
    LET daily_dd == get_daily_drawdown_pct(s)
        total_dd == get_drawdown_pct(s)
    IN IF RatGE(daily_dd, Bp(max_daily_drawdown)) THEN <<FALSE, "DAILY DD LIMIT">>
       ELSE IF RatGE(total_dd, Bp(max_total_drawdown)) THEN <<FALSE, "TOTAL DD LIMIT">>
       ELSE <<TRUE, "OK">>

-----------------------------------------------------------------------------
(* RiskManager: position sizing *)

RECURSIVE Gcd(_, _)
Gcd(a, b) == IF b = 0 THEN a ELSE Gcd(b, a % b)
Abs(n) == IF n < 0 THEN 0 - n ELSE n
\* n / d for any d # 0, in lowest terms with the sign in the numerator
Rat(n, d) ==
    LET g == Gcd(Abs(n), Abs(d)) IN
    IF d < 0 THEN <<(0 - n) \div g, (0 - d) \div g>> ELSE <<n \div g, d \div g>>
\* v milli-lots as a rational number of lots
Lots(v) == <<v, 1000>>

\* The instruments sizing is asked about, by name; "None" is symbol_info=None.
\* Volumes in milli-lots.  An attribute an instrument lacks takes getattr's default.
SymbolAttrs(symbol_info) ==
    CASE symbol_info = "fx" ->
             [ask |-> 1, trade_contract_size |-> 100000,
              volume_min |-> 10, volume_max |-> 100000, volume_step |-> 10]
      [] symbol_info = "metal" ->
             [ask |-> 2000, trade_contract_size |-> 100,
              volume_min |-> 10, volume_max |-> 100, volume_step |-> 10]
      [] symbol_info = "index" ->
             [ask |-> 1, trade_contract_size |-> 100000,
              volume_min |-> 15, volume_max |-> 50, volume_step |-> 10]
      [] symbol_info = "no_tick" ->
             [ask |-> 0, trade_contract_size |-> 100000,
              volume_min |-> 10, volume_max |-> 100000, volume_step |-> 10]
      [] OTHER -> [ask |-> 1]
\* getattr(symbol_info, name, default)
getattr(symbol_info, name, dflt) == rec_get(SymbolAttrs(symbol_info), name, dflt)

\* math.floor(raw_lots / step) * step, as lots
floor_to_step(raw_lots, step) ==
    Lots(((raw_lots[1] * 1000) \div (raw_lots[2] * step)) * step)

\* round(raw_lots, 2), in milli-lots: the nearest hundredth of a lot.  A value
\* whose decimal expansion is halfway between two hundredths is a double just
\* below or just above the halfway point, so either neighbour is an outcome.
round2(raw_lots) ==
    LET q == (raw_lots[1] * 100) \div raw_lots[2]
        rem == raw_lots[1] * 100 - q * raw_lots[2]
    IN IF 2 * rem < raw_lots[2] THEN {10 * q}
       ELSE IF 2 * rem > raw_lots[2] THEN {10 * (q + 1)}
       ELSE {10 * q, 10 * (q + 1)}

Returned(v) == [raised |-> FALSE, value |-> v]
Raised == [raised |-> TRUE, value |-> 0]

\* calculate_position_size past its guard: the outcomes, in milli-lots
sized(s, balance, risk_pct, sl_distance, point_value, symbol_info) ==
    LET multiplier == get_risk_multiplier(s)
        \* balance * (risk_pct * multiplier), risk_pct in basis points and
        \* multiplier in hundredths
        risk_amount == <<balance * risk_pct * multiplier, 10000 * 100>>
        divisor == sl_distance * point_value
    IN IF divisor = 0 THEN {Raised}                       \* ZeroDivisionError
       ELSE LET raw_lots == Rat(risk_amount[1], risk_amount[2] * divisor) IN
            IF symbol_info = "None" THEN {Returned(v) : v \in round2(raw_lots)}
            ELSE LET price == getattr(symbol_info, "ask", 1)
                     contract_size == getattr(symbol_info, "trade_contract_size", 100000)
                     min_lot == getattr(symbol_info, "volume_min", 10)
                     max_lot == getattr(symbol_info, "volume_max", 100000)
                     step == getattr(symbol_info, "volume_step", 10)
                 IN IF price * contract_size = 0 THEN {Raised}   \* ZeroDivisionError
                    ELSE LET max_lots == Rat(balance * max_leverage, price * contract_size)
                             capped == RatMin(raw_lots, max_lots)
                             clamped == RatMax(Lots(min_lot), RatMin(capped, Lots(max_lot)))
                             stepped == IF step > 0 THEN floor_to_step(clamped, step)
                                        ELSE clamped
                         IN {Returned(v) : v \in round2(stepped)}

\* calculate_position_size whose guard asks for both arguments to be invalid
calculate_position_size_and(s, balance, risk_pct, sl_distance, point_value, symbol_info) ==
    IF sl_distance <= 0 /\ point_value <= 0 THEN {Returned(0)}
    ELSE sized(s, balance, risk_pct, sl_distance, point_value, symbol_info)

\* calculate_position_size: the outcomes, in milli-lots
calculate_position_size(s, balance, risk_pct, sl_distance, point_value, symbol_info) ==
    IF sl_distance <= 0 \/ point_value <= 0 THEN {Returned(0)}
    ELSE sized(s, balance, risk_pct, sl_distance, point_value, symbol_info)

-----------------------------------------------------------------------------
(* RiskManager: the mutations, each as the state before save_state *)

update_equity(s, equity) ==
    LET s1 == [s EXCEPT !.current_capital = equity]
        s2 == IF equity > s1.peak_capital THEN [s1 EXCEPT !.peak_capital = equity] ELSE s1
    IN IF s2.daily_start_capital <= 0 THEN [s2 EXCEPT !.daily_start_capital = equity] ELSE s2

register_open_risk(s, ticket, risk_pct) ==
    LET ledger == dict_set(s.open_risk_by_ticket, str(ticket), risk_pct)
    IN [s EXCEPT !.open_risk_by_ticket = ledger, !.open_risk_pct = dict_sum(ledger)]

\* release_risk that leaves the aggregate as it was
release_risk_stale(s, ticket) ==
    [s EXCEPT !.open_risk_by_ticket = dict_pop(s.open_risk_by_ticket, str(ticket))]

release_risk(s, ticket) ==
    LET ledger == dict_pop(s.open_risk_by_ticket, str(ticket))
    IN [s EXCEPT !.open_risk_by_ticket = ledger, !.open_risk_pct = dict_sum(ledger)]

-----------------------------------------------------------------------------
(* PropFirmRiskManager: configuration *)

\* PHASE_CONFIGS: fractions in basis points.  TradingPhase.SCALED has no entry.
PHASE_CONFIGS ==
    [challenge |->
        [dd_type |-> "static", max_daily_dd_pct |-> 380, max_total_dd_pct |-> 800,
         min_risk_per_trade |-> 50, max_risk_per_trade |-> 125, profit_target_pct |-> 800],
     verification |->
        [dd_type |-> "static", max_daily_dd_pct |-> 380, max_total_dd_pct |-> 800,
         min_risk_per_trade |-> 25, max_risk_per_trade |-> 75, profit_target_pct |-> 500],
     funded |->
        [dd_type |-> "trailing", max_daily_dd_pct |-> 380, max_total_dd_pct |-> 800,
         min_risk_per_trade |-> 25, max_risk_per_trade |-> 100, profit_target_pct |-> 0]]

\* the members of the enum TradingPhase
TradingPhase == {"challenge", "verification", "funded", "scaled"}

\* self.config
config(ph) == PHASE_CONFIGS[ph]

\* PropFirmRiskManager.__init__: PHASE_CONFIGS[phase] raises KeyError for a phase
\* without entry; nothing else is checked
prop_init_raises(ph, balance) == ph \notin DOMAIN PHASE_CONFIGS
\* the fields __init__ sets
prop_init(ph, balance) ==
    [phase |-> ph, initial_balance |-> balance, high_water_mark |-> balance,
     open_positions |-> <<>>, daily_pnl |-> 0]

-----------------------------------------------------------------------------
(* PropFirmRiskManager: drawdown, risk action, risk budget *)

\* _get_drawdown_pct that sets the mark to every equity it sees
_get_drawdown_pct_follow(cfg, hwm, init_balance, current_equity) ==
    LET trailing == cfg.dd_type = "trailing"
        mark == IF trailing THEN current_equity ELSE hwm
        base == IF trailing THEN mark ELSE init_balance
    IN [hwm |-> mark,
        dd |-> IF base <= 0 THEN <<0, 1>>
               ELSE RatMax(<<0, 1>>, <<base - current_equity, base>>)]

\* _get_drawdown_pct: the drawdown and the high-water mark it leaves
_get_drawdown_pct(cfg, hwm, init_balance, current_equity) ==
    LET trailing == cfg.dd_type = "trailing"
        mark == IF trailing /\ current_equity > hwm THEN current_equity ELSE hwm
        base == IF trailing THEN mark ELSE init_balance
    IN [hwm |-> mark,
        dd |-> IF base <= 0 THEN <<0, 1>>
               ELSE RatMax(<<0, 1>>, <<base - current_equity, base>>)]

\* max_total_dd_pct * f for f in hundredths, as a rational
CeilingTimes(cfg, f) == <<cfg.max_total_dd_pct * f, 10000 * 100>>

\* assess_risk with each threshold itself in the milder class
assess_risk_strict(cfg, dd) ==
    IF RatGT(dd, CeilingTimes(cfg, 95)) THEN "halt_trading"
    ELSE IF RatGT(dd, CeilingTimes(cfg, 75)) THEN "block_new"
    ELSE IF RatGT(dd, CeilingTimes(cfg, 50)) THEN "reduce_size"
    ELSE "allow"

\* assess_risk, given the drawdown
assess_risk(cfg, dd) ==
    IF RatGE(dd, CeilingTimes(cfg, 95)) THEN "halt_trading"
    ELSE IF RatGE(dd, CeilingTimes(cfg, 75)) THEN "block_new"
    ELSE IF RatGE(dd, CeilingTimes(cfg, 50)) THEN "reduce_size"
    ELSE "allow"

\* the de-rating of get_risk_budget, in hundredths
dd_multiplier(dd) ==
    IF RatGT(dd, Bp(200)) THEN 50
    ELSE IF RatGT(dd, Bp(100)) THEN 75
    ELSE 100

\* sum(p.risk_pct for p in self.open_positions.values())
RECURSIVE used_risk(_)
used_risk(positions) ==
    IF positions = <<>> THEN 0
    ELSE used_risk(SubSeq(positions, 1, Len(positions) - 1))
             + positions[Len(positions)][2].risk_pct

\* max_total_risk = max_total_dd_pct * 0.5 * dd_multiplier, in basis points
max_total_risk(cfg, mult) == (cfg.max_total_dd_pct * 50 * mult) \div (100 * 100)

\* int(available / min_risk_per_trade) if available > 0 else 0.  With nothing
\* committed, available is max_total_risk itself (0.04, 0.03 or 0.02) and its
\* double quotient by 0.005 or 0.0025 is the whole number exactly.  Otherwise
\* available is a difference of doubles: where the exact quotient is a whole
\* number q the double quotient is q or just below it (0.03 - 0.005 is
\* 0.024999999999999998 and int(0.024999999999999998 / 0.005) is 4), so both q
\* and q - 1 are outcomes.
max_new_positions(available, min_risk, used) ==
    IF available <= 0 THEN {0}
    ELSE IF available % min_risk = 0 /\ used # 0
         THEN {available \div min_risk, (available \div min_risk) - 1}
         ELSE {available \div min_risk}

\* get_risk_budget, given the drawdown and the outcome of the division
get_risk_budget(cfg, positions, dd, max_new) ==
    LET used == used_risk(positions)
        mult == dd_multiplier(dd)
        available == IF max_total_risk(cfg, mult) - used > 0
                     THEN max_total_risk(cfg, mult) - used ELSE 0
    IN [available_risk_pct |-> available,
        used_risk_pct |-> used,
        dd_multiplier |-> mult,
        max_new_positions |-> max_new]

\* the available risk get_risk_budget computes
available_risk(cfg, positions, dd) ==
    get_risk_budget(cfg, positions, dd, 0).available_risk_pct

-----------------------------------------------------------------------------
(* PropFirmRiskManager: position tracking *)

\* an OpenPosition; volume, entry_price, stop_loss and opened_at are never read
OpenPosition(ticket, symbol, action, risk_pct) ==
    [ticket |-> ticket, symbol |-> symbol, action |-> action, risk_pct |-> risk_pct]

open_position(positions, pos) == dict_set(positions, pos.ticket, pos)

\* close_position: <<open_positions, _daily_pnl>> afterwards
close_position(positions, pnl, ticket, realized_pnl) ==
    IF ticket \in dict_keys(positions)
    THEN <<dict_pop(positions, ticket), pnl + realized_pnl>>
    ELSE <<positions, pnl>>

-----------------------------------------------------------------------------
(* PropFirmRiskManager: the correlation check *)

\* SYMBOL_CURRENCY_EXPOSURE: symbol -> the dict of (currency, weight), in order
SYMBOL_CURRENCY_EXPOSURE ==
    [EURUSD |-> << <<"EUR", 1>>, <<"USD", 0 - 1>> >>,
     GBPUSD |-> << <<"GBP", 1>>, <<"USD", 0 - 1>> >>,
     AUDUSD |-> << <<"AUD", 1>>, <<"USD", 0 - 1>> >>,
     NZDUSD |-> << <<"NZD", 1>>, <<"USD", 0 - 1>> >>,
     USDCAD |-> << <<"USD", 1>>, <<"CAD", 0 - 1>> >>,
     USDCHF |-> << <<"USD", 1>>, <<"CHF", 0 - 1>> >>,
     USDJPY |-> << <<"USD", 1>>, <<"JPY", 0 - 1>> >>,
     EURGBP |-> << <<"EUR", 1>>, <<"GBP", 0 - 1>> >>,
     EURJPY |-> << <<"EUR", 1>>, <<"JPY", 0 - 1>> >>,
     GBPJPY |-> << <<"GBP", 1>>, <<"JPY", 0 - 1>> >>,
     AUDJPY |-> << <<"AUD", 1>>, <<"JPY", 0 - 1>> >>,
     NZDJPY |-> << <<"NZD", 1>>, <<"JPY", 0 - 1>> >>,
     XAUUSD |-> << <<"XAU", 1>>, <<"USD", 0 - 1>> >>,
     BTCUSD |-> << <<"BTC", 1>>, <<"USD", 0 - 1>> >>,
     ETHUSD |-> << <<"ETH", 1>>, <<"USD", 0 - 1>> >>]

\* SYMBOL_CURRENCY_EXPOSURE.get(symbol, {})
exposure_get(symbol) ==
    IF symbol \in DOMAIN SYMBOL_CURRENCY_EXPOSURE
    THEN SYMBOL_CURRENCY_EXPOSURE[symbol] ELSE <<>>

\* 1.0 if action == "BUY" else -1.0
direction_of(action) == IF action = "BUY" THEN 1 ELSE 0 - 1

\* the inner loop: total_exposure[ccy] = total_exposure.get(ccy, 0.0) + weight * direction
RECURSIVE add_exposure(_, _, _)
add_exposure(total, sym_exp, direction) ==
    IF sym_exp = <<>> THEN total
    ELSE add_exposure(dict_set(total, sym_exp[1][1],
                               dict_get(total, sym_exp[1][1], 0) + sym_exp[1][2] * direction),
                      Tail(sym_exp), direction)

\* the loop over self.open_positions.values(): total_exposure afterwards
RECURSIVE total_exposure(_, _, _)
total_exposure(positions, new_symbol, total) ==
    IF positions = <<>> THEN total
    ELSE LET pos == positions[1][2] IN
         IF pos.symbol = new_symbol
         THEN total_exposure(Tail(positions), new_symbol, total)       \* continue
         ELSE total_exposure(Tail(positions), new_symbol,
                             add_exposure(total, exposure_get(pos.symbol),
                                          direction_of(pos.action)))

\* the reasons check_correlation gives
ReasonUnknown == [text |-> "Unknown symbol - no correlation data"]
ReasonOK == [text |-> "OK"]
ReasonExcessive(ccy, existing, proposed) ==
    [text |-> "Excessive exposure", ccy |-> ccy, existing |-> existing, proposed |-> proposed]

\* the loop over new_exposure.items() with the threshold itself rejected
RECURSIVE exposure_scan_ge(_, _, _)
exposure_scan_ge(new_exposure, new_direction, total) ==
    IF new_exposure = <<>> THEN <<TRUE, ReasonOK>>
    ELSE LET ccy == new_exposure[1][1]
             proposed == new_exposure[1][2] * new_direction
             existing == dict_get(total, ccy, 0)
         IN IF Abs(existing + proposed) >= 2
            THEN <<FALSE, ReasonExcessive(ccy, existing, proposed)>>
            ELSE exposure_scan_ge(Tail(new_exposure), new_direction, total)

\* the loop over new_exposure.items(): the first currency over the threshold rejects
RECURSIVE exposure_scan(_, _, _)
exposure_scan(new_exposure, new_direction, total) ==
    IF new_exposure = <<>> THEN <<TRUE, ReasonOK>>
    ELSE LET ccy == new_exposure[1][1]
             proposed == new_exposure[1][2] * new_direction
             existing == dict_get(total, ccy, 0)
         IN IF Abs(existing + proposed) > 2
            THEN <<FALSE, ReasonExcessive(ccy, existing, proposed)>>
            ELSE exposure_scan(Tail(new_exposure), new_direction, total)

\* check_correlation that rejects at the threshold of 2.0 itself
check_correlation_ge(positions, new_symbol, new_action) ==
    LET new_exposure == exposure_get(new_symbol) IN
    IF new_exposure = <<>> THEN <<TRUE, ReasonUnknown>>
    ELSE exposure_scan_ge(new_exposure, direction_of(new_action),
                          total_exposure(positions, new_symbol, <<>>))

\* check_correlation: (approved, reason)
check_correlation(positions, new_symbol, new_action) ==
    LET new_exposure == exposure_get(new_symbol) IN
    IF new_exposure = <<>> THEN <<TRUE, ReasonUnknown>>
    ELSE exposure_scan(new_exposure, direction_of(new_action),
                       total_exposure(positions, new_symbol, <<>>))

-----------------------------------------------------------------------------
(* The inputs the model draws *)

EqBase == 500 * CapitalScale
\* the loss from EqBase that is a drawdown of bp basis points
LossAt(bp) == (bp * EqBase) \div 10000
Near(x) == {x + d : d \in (0 - Slack)..Slack}

\* the drawdown thresholds of RiskManager, in basis points
RMThresholds ==
    {DD_RISK_TIERS[i][1][1] * 100 : i \in 1..(Len(DD_RISK_TIERS) - 1)}
        \cup {max_daily_drawdown, max_total_drawdown}
\* equities on and next to every threshold, as seen from a peak of EqBase
FineEquities == {0, EqBase} \cup UNION {Near(EqBase - LossAt(t)) : t \in RMThresholds}
\* two equities: the reference capital and a new peak
CoarseEquities == {EqBase, EqBase + CapitalScale}
\* two equities: the reference capital and a loss of max_daily_drawdown from it
OutageEquities == {EqBase, EqBase - LossAt(max_daily_drawdown)}

\* the drawdown thresholds of get_risk_budget and of assess_risk, in basis points
BudgetThresholds == {100, 200}
ActionThresholds ==
    {(PHASE_CONFIGS[ph].max_total_dd_pct * f) \div 100 :
        ph \in DOMAIN PHASE_CONFIGS, f \in {50, 75, 95}}
\* equities on and next to every threshold in T, as seen from a base of EqBase
EquitiesNear(T) == {0} \cup Near(EqBase) \cup UNION {Near(EqBase - LossAt(t)) : t \in T}
BudgetEquities == EquitiesNear(BudgetThresholds)
PFEquities == EquitiesNear(BudgetThresholds \cup ActionThresholds)

\* one equity in each tier of DD_RISK_TIERS, as seen from a peak of EqBase
TierEquities == {EqBase} \cup {EqBase - LossAt(t) : t \in RMThresholds \ {max_daily_drawdown, max_total_drawdown}}

\* Sizing requests.  With a stop of 50 points worth 10 each, a balance of 800
\* at 1% risk asks for 0.016, 0.012, 0.008 and 0.004 lots in the four tiers
\* (between lot steps, and below the smallest lot); with a stop of 1 point it
\* asks for 0.8 lots and down, above the leverage cap of the metal.
Balances == {800}
RiskFractions == {0 - 100, 0, 100}
StopDistances == {0 - 1, 0, 1, 50}
PointValues == {0 - 1, 0, 10}
SymbolInfos == {"None", "fx", "metal", "index", "no_tick", "bare"}

\* initial balances: a loss beyond the account, nothing, the reference capital
InitialBalances == {0 - CapitalScale, 0, EqBase}

Tickets == 1..MaxTicket
PTickets == 1..MaxPositions
\* the risk fractions a phase allows per trade, in basis points
PhaseRisks(ph) == {config(ph).min_risk_per_trade, config(ph).max_risk_per_trade}
\* risk fractions, in basis points
RiskValues == {k * 25 : k \in 0..MaxRiskSteps}

\* Instruments positions are opened in: two that are short the dollar when
\* bought, one that is long the dollar, one that shares no currency with the
\* dollar pairs but the euro, and one the exposure table does not list
HeldSymbols == {"EURUSD", "GBPUSD", "USDJPY", "EURGBP", "US30"}
\* instruments proposed: the same, and a third that is short the dollar
ProposedSymbols == HeldSymbols \cup {"AUDUSD"}
Directions == {"BUY", "SELL"}
\* three instruments that are short the dollar when bought
Majors == {"EURUSD", "GBPUSD", "AUDUSD"}
HTickets == 1..MaxHeld

\* A record as a day-0 session leaves it: equity at EqBase, then one unit lower,
\* with ticket 1 registered at 0.25%
StoredState ==
    [current_capital |-> EqBase - CapitalScale, peak_capital |-> EqBase,
     daily_start_capital |-> EqBase, open_risk_pct |-> 25,
     open_risk_by_ticket |-> << <<str(1), 25>> >>, timestamp |-> isoformat(0)]
StateFields == DOMAIN StoredState
\* readable state files found at construction: that record with any set of its
\* members missing, or with one member null
FilesFound ==
    {JsonFile([k \in StateFields \ K |-> json_dump(StoredState).data[k]]) : K \in SUBSET StateFields}
        \cup {JsonFile([json_dump(StoredState).data EXCEPT ![k] = JNull]) : k \in StateFields}

NoCall == [op |-> "none", args |-> <<>>, ret |-> <<>>, io |-> "none"]
Call(op, args, ret, io) == [op |-> op, args |-> args, ret |-> ret, io |-> io]

-----------------------------------------------------------------------------
(* RiskManager: the calls *)

\* a mutation that ends in save_state: s is the state it hands to save_state
Persist(s, outcome) ==
    LET saved == save_state(s, state_file, today, outcome) IN
    /\ state' = saved.state
    /\ state_file' = saved.file
    /\ faults' = IF outcome = "ok" THEN faults ELSE faults - 1
    /\ today' = today

\* how such a call ends: save_state is its last statement
Ended(s, outcome) ==
    IF save_state(s, state_file, today, outcome).raised THEN <<"raised">> ELSE <<"returned">>

UpdateEquity(E) ==
    \E equity \in E, outcome \in WriteOutcomes(faults) :
        /\ Persist(update_equity(state, equity), outcome)
        /\ last' = Call("update_equity", <<equity>>,
                        Ended(update_equity(state, equity), outcome), outcome)
        /\ UNCHANGED pf_vars

RegisterOpenRisk(Risks) ==
    \E ticket \in Tickets, risk_pct \in Risks, outcome \in WriteOutcomes(faults) :
        /\ Persist(register_open_risk(state, ticket, risk_pct), outcome)
        /\ last' = Call("register_open_risk", <<ticket, risk_pct>>,
                        Ended(register_open_risk(state, ticket, risk_pct), outcome), outcome)
        /\ UNCHANGED pf_vars

ReleaseRisk ==
    \E ticket \in Tickets, outcome \in WriteOutcomes(faults) :
        /\ Persist(release_risk(state, ticket), outcome)
        /\ last' = Call("release_risk", <<ticket>>,
                        Ended(release_risk(state, ticket), outcome), outcome)
        /\ UNCHANGED pf_vars

CheckCircuitBreakers ==
    /\ last' = Call("check_circuit_breakers", <<>>, check_circuit_breakers(state), "none")
    /\ UNCHANGED <<rm_vars, pf_vars>>

GetRiskMultiplier ==
    /\ last' = Call("get_risk_multiplier", <<>>, <<get_risk_multiplier(state)>>, "none")
    /\ UNCHANGED <<rm_vars, pf_vars>>

CalculatePositionSize ==
    \E balance \in Balances, risk_pct \in RiskFractions, sl_distance \in StopDistances,
       point_value \in PointValues, symbol_info \in SymbolInfos :
        \E r \in calculate_position_size(state, balance, risk_pct, sl_distance,
                                         point_value, symbol_info) :
            /\ last' = Call("calculate_position_size",
                            <<balance, risk_pct, sl_distance, point_value, symbol_info>>,
                            r, "none")
            /\ UNCHANGED <<rm_vars, pf_vars>>

\* the process starts again: RiskManager.__init__ on the same state file.  When
\* __init__ raises there is no RiskManager; the state is left as it was.
Restart ==
    /\ state' = IF init_raises(state_file) THEN state ELSE _load_state(state_file, today)
    /\ last' = Call("__init__", <<>>,
                    IF init_raises(state_file) THEN <<"raised">> ELSE <<"constructed">>, "none")
    /\ UNCHANGED <<state_file, today, faults, pf_vars>>

\* between two runs of the process the state file is replaced from outside: a
\* record of an older release, a restored or hand-edited copy
Replace(Files) ==
    \E f \in Files :
        /\ state_file' = f
        /\ last' = Call("replace", <<>>, <<>>, "none")
        /\ UNCHANGED <<state, today, faults, pf_vars>>

\* midnight in Lagos
NewDay ==
    /\ today < MaxDay
    /\ today' = today + 1
    /\ last' = Call("new_day", <<>>, <<>>, "none")
    /\ UNCHANGED <<state, state_file, faults, pf_vars>>

-----------------------------------------------------------------------------
(* PropFirmRiskManager: the calls *)

GetRiskBudget(E) ==
    \E current_equity \in E :
        LET d == _get_drawdown_pct(config(phase), high_water_mark, initial_balance, current_equity)
        IN \E n \in max_new_positions(available_risk(config(phase), open_positions, d.dd),
                                      config(phase).min_risk_per_trade,
                                      used_risk(open_positions)) :
            /\ high_water_mark' = d.hwm
            /\ last' = Call("get_risk_budget", <<current_equity>>,
                            get_risk_budget(config(phase), open_positions, d.dd, n), "none")
            /\ UNCHANGED <<phase, initial_balance, open_positions, daily_pnl, rm_vars>>

AssessRisk(E) ==
    \E current_equity \in E :
        LET d == _get_drawdown_pct(config(phase), high_water_mark, initial_balance, current_equity)
        IN /\ high_water_mark' = d.hwm
           /\ last' = Call("assess_risk", <<current_equity>>, assess_risk(config(phase), d.dd), "none")
           /\ UNCHANGED <<phase, initial_balance, open_positions, daily_pnl, rm_vars>>

OpenPos(Tix, Syms, Acts, Risks) ==
    \E ticket \in Tix, symbol \in Syms, action \in Acts, risk_pct \in Risks :
        /\ open_positions' =
               open_position(open_positions, OpenPosition(ticket, symbol, action, risk_pct))
        /\ last' = Call("open_position", <<ticket, symbol, action, risk_pct>>, <<>>, "none")
        /\ UNCHANGED <<phase, initial_balance, high_water_mark, daily_pnl, rm_vars>>

ClosePos(Tix, Pnls) ==
    \E ticket \in Tix, realized_pnl \in Pnls :
        LET after == close_position(open_positions, daily_pnl, ticket, realized_pnl) IN
        /\ after[2] \in (0 - MaxPnl)..MaxPnl
        /\ open_positions' = after[1]
        /\ daily_pnl' = after[2]
        /\ last' = Call("close_position", <<ticket, realized_pnl>>, <<>>, "none")
        /\ UNCHANGED <<phase, initial_balance, high_water_mark, rm_vars>>

\* PropFirmRiskManager(ph, balance): a new instance takes the place of the old
\* one; when __init__ raises there is no new instance.
Construct(Balances0) ==
    \E ph \in TradingPhase, balance \in Balances0 :
        IF prop_init_raises(ph, balance)
        THEN /\ last' = Call("PropFirmRiskManager", <<ph, balance>>, <<"raised">>, "none")
             /\ UNCHANGED <<pf_vars, rm_vars>>
        ELSE LET self == prop_init(ph, balance) IN
             /\ phase' = self.phase
             /\ initial_balance' = self.initial_balance
             /\ high_water_mark' = self.high_water_mark
             /\ open_positions' = self.open_positions
             /\ daily_pnl' = self.daily_pnl
             /\ last' = Call("PropFirmRiskManager", <<ph, balance>>, <<"constructed">>, "none")
             /\ UNCHANGED rm_vars

CheckCorrelation(Syms, Acts) ==
    \E new_symbol \in Syms, new_action \in Acts :
        /\ last' = Call("check_correlation", <<new_symbol, new_action>>,
                        check_correlation(open_positions, new_symbol, new_action), "none")
        /\ UNCHANGED <<pf_vars, rm_vars>>

-----------------------------------------------------------------------------
(* Specifications *)

\* PropFirmRiskManager() with its default arguments
InitPropDefault ==
    /\ phase = "challenge"
    /\ initial_balance = 100000
    /\ high_water_mark = 100000
    /\ open_positions = <<>>
    /\ daily_pnl = 0

\* RiskManager() with no state file
InitRiskFresh ==
    /\ state = _load_state(NoFile, 0)
    /\ state_file = NoFile
    /\ today = 0

\* One RiskManager on a disk that lets up to MaxFaults writes fail.
Init ==
    /\ InitRiskFresh
    /\ faults \in 0..MaxFaults
    /\ InitPropDefault
    /\ last = NoCall

\* One RiskManager on a healthy disk.
InitDrawdown ==
    /\ InitRiskFresh
    /\ faults = 0
    /\ InitPropDefault
    /\ last = NoCall

\* The exposure ledger and the capital figures of one RiskManager.
Next ==
    \/ UpdateEquity(CoarseEquities)
    \/ RegisterOpenRisk(RiskValues)
    \/ ReleaseRisk

Spec == InitDrawdown /\ [][Next]_vars

\* The capital figures, the ledger and the circuit breaker of one RiskManager,
\* with failing writes.
NextOutage ==
    \/ UpdateEquity(OutageEquities)
    \/ RegisterOpenRisk({25})
    \/ ReleaseRisk
    \/ CheckCircuitBreakers

SpecOutage == Init /\ [][NextOutage]_vars

\* The same over restarts of the process and changes of day.
NextStore ==
    \/ UpdateEquity(CoarseEquities)
    \/ RegisterOpenRisk(RiskValues)
    \/ ReleaseRisk
    \/ Restart
    \/ NewDay

SpecStore == Init /\ [][NextStore]_vars

\* The drawdown tracker, the multiplier policy and the circuit breaker on a
\* healthy disk.

NextDrawdown ==
    \/ UpdateEquity(FineEquities)
    \/ CheckCircuitBreakers
    \/ GetRiskMultiplier

SpecDrawdown == InitDrawdown /\ [][NextDrawdown]_vars

\* The ledger and the capital figures over restarts and changes of day on a
\* healthy disk: every persist succeeds.
SpecReload == InitDrawdown /\ [][NextStore]_vars

\* PropFirmRiskManager(ph, EqBase) for a configured phase ph
InitProp ==
    /\ phase \in DOMAIN PHASE_CONFIGS
    /\ initial_balance = EqBase
    /\ high_water_mark = initial_balance
    /\ open_positions = <<>>
    /\ daily_pnl = 0
    /\ InitRiskFresh
    /\ faults = 0
    /\ last = NoCall

\* The phase budget over opens and closes.
NextProp ==
    \/ OpenPos(PTickets, {"EURUSD"}, {"BUY"}, PhaseRisks(phase))
    \/ ClosePos(PTickets, {0 - 1, 1})
    \/ GetRiskBudget(BudgetEquities)

SpecProp == InitProp /\ [][NextProp]_vars

\* The drawdown baselines and the risk action classifier: a PropFirmRiskManager
\* of any configured phase and a RiskManager, each fed equities.
InitMarks ==
    /\ phase \in DOMAIN PHASE_CONFIGS
    /\ initial_balance = EqBase
    /\ high_water_mark = initial_balance
    /\ open_positions = <<>>
    /\ daily_pnl = 0
    /\ InitRiskFresh
    /\ faults \in 0..MaxFaults
    /\ last = NoCall

NextMarks ==
    \/ UpdateEquity(CoarseEquities)
    \/ GetRiskBudget(PFEquities)
    \/ AssessRisk(PFEquities)

SpecMarks == InitMarks /\ [][NextMarks]_vars

\* The correlation guard over opens and closes: PropFirmRiskManager() with its
\* default arguments, positions at the phase's smallest risk.
InitCorrelation ==
    /\ InitPropDefault
    /\ InitRiskFresh
    /\ faults = 0
    /\ last = NoCall

NextCorrelation ==
    \/ OpenPos(PTickets, HeldSymbols, Directions, {config(phase).min_risk_per_trade})
    \/ ClosePos(PTickets, {0})
    \/ CheckCorrelation(ProposedSymbols, Directions)

SpecCorrelation == InitCorrelation /\ [][NextCorrelation]_vars

\* The correlation guard asked about adding to an instrument already held,
\* with up to MaxHeld positions in the dollar majors.
NextScaling ==
    \/ OpenPos(HTickets, Majors, Directions, {config(phase).min_risk_per_trade})
    \/ ClosePos(HTickets, {0})
    \/ CheckCorrelation(Majors, Directions)

SpecScaling == InitCorrelation /\ [][NextScaling]_vars

\* Construction with any phase and any balance, and the queries on what was
\* constructed.
NextConstruct ==
    \/ Construct(InitialBalances)
    \/ GetRiskBudget(BudgetEquities)
    \/ AssessRisk(BudgetEquities)

SpecConstruct == InitProp /\ [][NextConstruct]_vars

\* Construction from the state files it can find.
NextFound ==
    \/ Replace(FilesFound)
    \/ Restart
    \/ NewDay

SpecFound == InitDrawdown /\ [][NextFound]_vars

\* The three queries of a PropFirmRiskManager of any configured phase with
\* positions open.
NextQueries ==
    \/ OpenPos(PTickets, {"EURUSD", "GBPUSD"}, {"BUY"}, {config(phase).min_risk_per_trade})
    \/ GetRiskBudget(BudgetEquities)
    \/ AssessRisk(BudgetEquities)
    \/ CheckCorrelation(Majors, {"BUY"})

SpecQueries == InitProp /\ [][NextQueries]_vars

\* The position sizer in every tier of the multiplier policy, on a healthy disk.
NextSizer ==
    \/ UpdateEquity(TierEquities)
    \/ CalculatePositionSize

SpecSizer == InitDrawdown /\ [][NextSizer]_vars

-----------------------------------------------------------------------------
(* Claims *)

\* the sum of the ledger's values, ticket by ticket
RECURSIVE LedgerTotal(_, _)
LedgerTotal(ledger, t) ==
    IF t = 0 THEN 0 ELSE dict_get(ledger, ToString(t), 0) + LedgerTotal(ledger, t - 1)

\* C1: after every register_open_risk, release_risk and update_equity call on a
\* RiskManager that started with the default state, open_risk_pct is the sum of
\* the values in open_risk_by_ticket.
C1_LedgerSum ==
    /\ dict_keys(state.open_risk_by_ticket) \subseteq {ToString(t) : t \in Tickets}
    /\ state.open_risk_pct = LedgerTotal(state.open_risk_by_ticket, MaxTicket)

\* a release has left one of two registered tickets, with its risk as the aggregate
C1_Witness ==
    /\ last.op = "release_risk"
    /\ Len(state.open_risk_by_ticket) = 1
    /\ state.open_risk_pct = 25

\* C2: in a trailing-drawdown phase high_water_mark never decreases over
\* get_risk_budget and assess_risk calls and is at least the equity passed after
\* each; peak_capital never decreases over update_equity calls.
C2_MarksNeverDecrease ==
    [][/\ (/\ config(phase).dd_type = "trailing"
           /\ last'.op \in {"get_risk_budget", "assess_risk"})
          => (/\ high_water_mark' >= high_water_mark
              /\ high_water_mark' >= last'.args[1])
       /\ (last'.op = "update_equity")
          => state'.peak_capital >= state.peak_capital]_vars

\* both marks stand above the equity last reported, after having been raised
C2_Witness ==
    /\ phase = "funded"
    /\ high_water_mark > initial_balance
    /\ last.op = "assess_risk"
    /\ last.args[1] < high_water_mark
    /\ state.current_capital > 0
    /\ state.peak_capital > state.current_capital

\* C3: after any opens and closes the risk committed to open positions is at
\* most max_total_dd_pct x 0.5 x dd_multiplier, the max_total_risk that
\* get_risk_budget computes for the current equity.
C3_CommittedWithinBudget ==
    last.op = "get_risk_budget"
        => used_risk(open_positions)
               <= max_total_risk(config(phase), last.ret.dd_multiplier)

\* the base and the loss assess_risk and get_risk_budget measured at their last call
BaseAtCall ==
    IF config(phase).dd_type = "trailing" THEN high_water_mark ELSE initial_balance
LossAtCall ==
    IF BaseAtCall <= 0 \/ BaseAtCall < last.args[1] THEN 0 ELSE BaseAtCall - last.args[1]
\* loss / base against f hundredths of the ceiling, cross-multiplied
AtLeastShare(f) ==
    BaseAtCall > 0
    /\ LossAtCall * 1000000 >= config(phase).max_total_dd_pct * f * BaseAtCall

\* C4: assess_risk returns ALLOW exactly below 50% of max_total_dd_pct,
\* REDUCE_SIZE exactly from 50% to below 75%, BLOCK_NEW exactly from 75% to
\* below 95%, HALT_TRADING exactly from 95% on, in every configured phase.
C4_RiskActionByShare ==
    last.op = "assess_risk"
        => /\ (last.ret = "allow") <=> ~AtLeastShare(50)
           /\ (last.ret = "reduce_size") <=> (AtLeastShare(50) /\ ~AtLeastShare(75))
           /\ (last.ret = "block_new") <=> (AtLeastShare(75) /\ ~AtLeastShare(95))
           /\ (last.ret = "halt_trading") <=> AtLeastShare(95)

\* a drawdown of exactly 95% of the ceiling halts trading
C4_Witness ==
    /\ last.op = "assess_risk"
    /\ BaseAtCall = EqBase
    /\ last.args[1] = EqBase - LossAt(760)
    /\ last.ret = "halt_trading"

\* loss from a baseline, as (loss, baseline), zero when the baseline is not positive
LossFrom(baseline) ==
    IF baseline <= 0 \/ baseline < state.current_capital
    THEN 0 ELSE baseline - state.current_capital
Breached(baseline, ceiling) ==
    baseline > 0 /\ LossFrom(baseline) * 10000 >= ceiling * baseline

\* C5: check_circuit_breakers returns can_trade = false exactly when the daily
\* drawdown is at least max_daily_drawdown or the total drawdown is at least
\* max_total_drawdown.
C5_BreakerTrips ==
    last.op = "check_circuit_breakers"
        => (last.ret[1] = FALSE)
               <=> (\/ Breached(state.daily_start_capital, max_daily_drawdown)
                    \/ Breached(state.peak_capital, max_total_drawdown))

\* a daily drawdown of exactly 3.8% (100000 to 96200, in units of 200) trips the breaker
C5_Witness ==
    /\ last.op = "check_circuit_breakers"
    /\ state.daily_start_capital = EqBase
    /\ state.current_capital * 1000 = EqBase * 962
    /\ last.ret[1] = FALSE

\* the multiplier, in hundredths, of the first tier whose bound strictly
\* exceeds the drawdown percentage 100 * loss / peak
TierOf(loss, peak) ==
    IF peak <= 0 \/ loss * 100 < peak THEN 100
    ELSE IF loss * 100 < 2 * peak THEN 75
    ELSE IF loss * 100 < 3 * peak THEN 50
    ELSE 25
\* the state with another current capital, and its loss from the peak
AtEquity(e) == [state EXCEPT !.current_capital = e]
LossOf(e) == IF state.peak_capital <= 0 \/ e > state.peak_capital THEN 0 ELSE state.peak_capital - e

\* C10: get_risk_multiplier returns the multiplier of the first tier whose bound
\* strictly exceeds the drawdown percentage (1.00 below 1%, 0.75 below 2%, 0.50
\* below 3%, 0.25 otherwise); it is in (0, 1] and non-increasing in drawdown.
C10_MultiplierTiers ==
    last.op = "get_risk_multiplier"
        => /\ last.ret[1] = TierOf(LossFrom(state.peak_capital), state.peak_capital)
           /\ \A e \in FineEquities :
                  /\ get_risk_multiplier(AtEquity(e)) > 0
                  /\ get_risk_multiplier(AtEquity(e)) <= 100
           /\ \A e1, e2 \in FineEquities :
                  LossOf(e1) < LossOf(e2)
                      => get_risk_multiplier(AtEquity(e1)) >= get_risk_multiplier(AtEquity(e2))

\* a drawdown of exactly 1% gets the second tier's 0.75
C10_Witness ==
    /\ last.op = "get_risk_multiplier"
    /\ state.peak_capital = EqBase
    /\ state.current_capital * 100 = EqBase * 99
    /\ last.ret[1] = 75

\* the arguments of the last calculate_position_size call
SizingCall == last.op = "calculate_position_size"
ArgBalance == last.args[1]
ArgRisk == last.args[2]
ArgStop == last.args[3]
ArgPoint == last.args[4]
ArgSymbol == last.args[5]
\* the instrument quotes a price, so that the leverage cap is defined
Quoted(symbol_info) ==
    getattr(symbol_info, "ask", 1) * getattr(symbol_info, "trade_contract_size", 100000) > 0

\* C6: calculate_position_size returns exactly 0 whenever sl_distance <= 0 or
\* point_value <= 0, whatever the other arguments and the engine state, without
\* raising and without changing the engine state.
C6_InvalidStopSizesZero ==
    [][last'.op = "calculate_position_size"
          => /\ state' = state
             /\ state_file' = state_file
             /\ (last'.args[3] <= 0 \/ last'.args[4] <= 0) => last'.ret = Returned(0)]_vars

\* in a drawdown, a request with limits, a positive risk and a zero stop got 0
C6_Witness ==
    /\ SizingCall
    /\ ArgStop = 0 /\ ArgPoint > 0 /\ ArgRisk > 0 /\ ArgSymbol = "fx"
    /\ state.current_capital < state.peak_capital
    /\ last.ret = Returned(0)

\* C7: with a positive stop distance and point value, a non-positive risk
\* fraction gets the zero-size sentinel: exactly 0, with or without instrument
\* limits, and no error.
C7_NonPositiveRiskSizesZero ==
    (/\ SizingCall
     /\ ArgStop > 0 /\ ArgPoint > 0 /\ ArgRisk <= 0
     /\ Quoted(ArgSymbol))
        => last.ret = Returned(0)

\* C8: with instrument limits, a positive stop distance and point value,
\* 0 < volume_step and volume_min <= volume_max, the size is within
\* [volume_min, volume_max] and a whole multiple of volume_step.  Stated for a
\* positive risk fraction, where the size does not rest on what a non-positive one gets.
C8_SizeWithinLimitsOnStep ==
    (/\ SizingCall
     /\ ArgSymbol # "None"
     /\ ArgStop > 0 /\ ArgPoint > 0 /\ ArgRisk > 0
     /\ Quoted(ArgSymbol)
     /\ getattr(ArgSymbol, "volume_step", 10) > 0
     /\ getattr(ArgSymbol, "volume_min", 10) <= getattr(ArgSymbol, "volume_max", 100000))
        => /\ ~last.ret.raised
           /\ last.ret.value >= getattr(ArgSymbol, "volume_min", 10)
           /\ last.ret.value <= getattr(ArgSymbol, "volume_max", 100000)
           /\ last.ret.value % getattr(ArgSymbol, "volume_step", 10) = 0

\* balance x risk_pct x risk_multiplier / (sl_distance x point_value), in lots
RawSize ==
    Rat(ArgBalance * ArgRisk
            * TierOf(LossFrom(state.peak_capital), state.peak_capital),
        10000 * 100 * ArgStop * ArgPoint)
\* balance x max_leverage / (price x contract_size), in lots
LeverageMax ==
    Rat(ArgBalance * max_leverage,
        getattr(ArgSymbol, "ask", 1) * getattr(ArgSymbol, "trade_contract_size", 100000))

\* C9: with a positive stop distance and point value the size is never greater
\* than the raw size, nor, with limits, than the leverage-implied maximum.
\* Stated for a positive risk fraction, as C8 is.
C9_NeverAboveRequested ==
    (/\ SizingCall
     /\ ArgStop > 0 /\ ArgPoint > 0 /\ ArgRisk > 0
     /\ Quoted(ArgSymbol))
        => /\ ~last.ret.raised
           /\ RatLE(Lots(last.ret.value), RawSize)
           /\ ArgSymbol # "None" => RatLE(Lots(last.ret.value), LeverageMax)

\* the de-rating the budget is documented to apply, in hundredths: full below
\* 1% drawdown, 75% from 1% to below 2%, 50% from 2% on
DeratingOf(loss, base) ==
    IF base <= 0 \/ loss * 100 < base THEN 100
    ELSE IF loss * 100 < 2 * base THEN 75
    ELSE 50
\* max(0, max_total_dd_pct x 0.5 x multiplier - used), in basis points
AvailableOf(mult, used) ==
    IF (config(phase).max_total_dd_pct * 50 * mult) \div 10000 - used > 0
    THEN (config(phase).max_total_dd_pct * 50 * mult) \div 10000 - used
    ELSE 0

\* C11: get_risk_budget returns used_risk = the sum of the open positions'
\* risk_pct; dd_multiplier = 1.0 when the drawdown is below 1%, 0.75 when it is
\* not below 1% but below 2%, 0.5 otherwise; available_risk = max(0,
\* max_total_dd_pct x 0.5 x dd_multiplier - used_risk); max_new_positions =
\* floor(available_risk / min_risk_per_trade) when available_risk > 0, else 0;
\* so available_risk >= 0 and max_new_positions >= 0.
C11_BudgetSnapshot ==
    last.op = "get_risk_budget"
        => LET mult == DeratingOf(LossAtCall, BaseAtCall)
               used == used_risk(open_positions)
               available == AvailableOf(mult, used)
           IN /\ last.ret.used_risk_pct = used
              /\ last.ret.dd_multiplier = mult
              /\ last.ret.available_risk_pct = available
              /\ last.ret.max_new_positions =
                     (IF available > 0
                      THEN available \div config(phase).min_risk_per_trade ELSE 0)
              /\ last.ret.available_risk_pct >= 0
              /\ last.ret.max_new_positions >= 0

\* the currencies an instrument touches and the signed weight of each, from the
\* exposure table
Touched(symbol) == {exposure_get(symbol)[i][1] : i \in 1..Len(exposure_get(symbol))}
WeightOn(symbol, ccy) == dict_get(exposure_get(symbol), ccy, 0)
Signed(action) == IF action = "BUY" THEN 1 ELSE 0 - 1
\* the exposure to ccy of the open positions among tickets 1..t in symbols other
\* than symbol
RECURSIVE ExistingOn(_, _, _)
ExistingOn(ccy, symbol, t) ==
    IF t = 0 THEN 0
    ELSE ExistingOn(ccy, symbol, t - 1)
         + (IF t \in dict_keys(open_positions)
               /\ dict_get(open_positions, t, <<>>).symbol # symbol
            THEN WeightOn(dict_get(open_positions, t, <<>>).symbol, ccy)
                     * Signed(dict_get(open_positions, t, <<>>).action)
            ELSE 0)
\* the proposed trade would take the exposure to ccy past 2.0
Excessive(ccy, symbol, action) ==
    Abs(ExistingOn(ccy, symbol, MaxPositions) + WeightOn(symbol, ccy) * Signed(action)) > 2

C13_SameSymbolApproved ==
    (/\ last.op = "check_correlation"
     /\ \E i \in 1..Len(open_positions) : open_positions[i][2].symbol = last.args[1])
        => last.ret[1] = TRUE

\* the day of the last persist, which the in-memory timestamp records
SavedDay == fromisoformat(state.timestamp)

\* C14: after mutating calls whose persists succeed, constructing a new
\* RiskManager from the same state file (a) on the same calendar date yields the
\* same current_capital, peak_capital, daily_start_capital and open-risk ledger
\* as the in-memory state at the last mutation, and (b) on a later date yields
\* the same current_capital and peak_capital, daily_start_capital equal to the
\* prior current_capital, an empty open_risk_by_ticket and open_risk_pct = 0.
C14_ReloadRoundTrip ==
    [][(last'.op = "__init__" /\ state_file.kind = "json")
          => /\ last'.ret = <<"constructed">>
             /\ state'.current_capital = state.current_capital
             /\ state'.peak_capital = state.peak_capital
             /\ SavedDay = today
                    => /\ state'.daily_start_capital = state.daily_start_capital
                       /\ state'.open_risk_by_ticket = state.open_risk_by_ticket
                       /\ state'.open_risk_pct = state.open_risk_pct
             /\ SavedDay < today
                    => /\ state'.daily_start_capital = state.current_capital
                       /\ state'.open_risk_by_ticket = <<>>
                       /\ state'.open_risk_pct = 0]_vars

\* a construction on a later day than the record's: the file still holds a
\* ledger and another daily start, the new instance holds the reset ones
C14_Witness ==
    /\ last.op = "__init__"
    /\ state_file.kind = "json"
    /\ SavedDay < today
    /\ json_load(state_file).open_risk_by_ticket # <<>>
    /\ json_load(state_file).daily_start_capital # json_load(state_file).current_capital
    /\ state.open_risk_by_ticket = <<>>
    /\ state.daily_start_capital = json_load(state_file).current_capital
    /\ state.peak_capital = json_load(state_file).peak_capital

\* C15: constructing PropFirmRiskManager with a phase that has no configuration,
\* or with initial_balance <= 0, fails with an error, so that no instance ever
\* exists whose initial_balance is non-positive or whose phase has no PhaseConfig.
C15_InvalidConfigRejected ==
    /\ (last.op = "PropFirmRiskManager"
        /\ (last.args[1] \notin DOMAIN PHASE_CONFIGS \/ last.args[2] <= 0))
           => last.ret = <<"raised">>
    /\ phase \in DOMAIN PHASE_CONFIGS
    /\ initial_balance > 0

\* the last call was a mutation whose write failed
WriteFailed(call) ==
    /\ call.op \in {"update_equity", "register_open_risk", "release_risk"}
    /\ call.io # "ok"
\* the in-memory state the same call leaves when its write succeeds
IfWritten(s, call) ==
    [(CASE call.op = "update_equity" -> update_equity(s, call.args[1])
        [] call.op = "register_open_risk" -> register_open_risk(s, call.args[1], call.args[2])
        [] OTHER -> release_risk(s, call.args[1]))
     EXCEPT !.timestamp = isoformat(today)]

\* C16: when the write inside save_state fails during update_equity,
\* register_open_risk or release_risk, the call returns normally, the in-memory
\* state keeps the mutation just applied, and check_circuit_breakers and
\* get_risk_multiplier give what they give when the write succeeds.
C16_WriteFailureRecovered ==
    [][WriteFailed(last')
          => /\ last'.ret = <<"returned">>
             /\ last'.op = "update_equity"
                    => /\ state'.current_capital = last'.args[1]
                       /\ state'.peak_capital >= last'.args[1]
                       /\ state'.peak_capital >= state.peak_capital
             /\ last'.op = "register_open_risk"
                    => /\ dict_get(state'.open_risk_by_ticket, ToString(last'.args[1]), 0 - 1)
                              = last'.args[2]
                       /\ state'.open_risk_pct
                              = LedgerTotal(state'.open_risk_by_ticket, MaxTicket)
             /\ last'.op = "release_risk"
                    => /\ ToString(last'.args[1]) \notin dict_keys(state'.open_risk_by_ticket)
                       /\ state'.open_risk_pct
                              = LedgerTotal(state'.open_risk_by_ticket, MaxTicket)
             /\ state' = IfWritten(state, last')
             /\ check_circuit_breakers(state') = check_circuit_breakers(IfWritten(state, last'))
             /\ get_risk_multiplier(state') = get_risk_multiplier(IfWritten(state, last'))]_vars

\* the breaker trips on a loss whose write failed: the file does not hold the
\* equity the in-memory state holds
C16_Witness ==
    /\ last.op = "check_circuit_breakers"
    /\ last.ret[1] = FALSE
    /\ state.current_capital = EqBase - LossAt(max_daily_drawdown)
    /\ faults < MaxFaults
    /\ \/ state_file.kind # "json"
       \/ json_load(state_file).current_capital # state.current_capital

\* C17: get_risk_budget, assess_risk and check_correlation are read-only: in
\* every phase, static or trailing, and for every argument, a call leaves
\* open_positions, high_water_mark, initial_balance and the daily P&L unchanged.
C17_QueriesReadOnly ==
    [][last'.op \in {"get_risk_budget", "assess_risk", "check_correlation"}
          => /\ open_positions' = open_positions
             /\ high_water_mark' = high_water_mark
             /\ initial_balance' = initial_balance
             /\ daily_pnl' = daily_pnl
             /\ phase' = phase]_vars

\* C18: the record is written as a full-record atomic replace: at every point,
\* also when a write fails or stops partway through save_state, the state file
\* holds either the complete previously persisted record or the complete new
\* one, never an empty, truncated or partially written one.
C18_AtomicReplace ==
    [][/\ state_file'.kind # "partial"
       /\ \/ state_file' = state_file
          \/ state_file' = json_dump(state')]_vars

\* a member of the document is there and of the type of its field
WellFormed(doc, k) ==
    /\ k \in DOMAIN doc
    /\ doc[k].json = (CASE k = "timestamp" -> "string"
                        [] k = "open_risk_by_ticket" -> "object"
                        [] OTHER -> "number")
\* the value a field takes by itself: the persisted one, or the default
FieldOrDefault(doc, k, now) ==
    IF WellFormed(doc, k) THEN decode(doc[k]) ELSE default_state(now)[k]
\* the record is of an earlier day than now
Rolls(doc, now) ==
    WellFormed(doc, "timestamp") /\ fromisoformat(decode(doc.timestamp)) < now
\* the value construction is to give a field: the day-rollover reset applied
FieldExpected(doc, k, now) ==
    IF Rolls(doc, now) /\ k = "daily_start_capital"
    THEN FieldOrDefault(doc, "current_capital", now)
    ELSE IF Rolls(doc, now) /\ k = "open_risk_pct" THEN 0
    ELSE IF Rolls(doc, now) /\ k = "open_risk_by_ticket" THEN <<>>
    ELSE FieldOrDefault(doc, k, now)

\* C19: for every set of the fields current_capital, peak_capital,
\* daily_start_capital, open_risk_pct, open_risk_by_ticket and timestamp that is
\* missing from, or malformed in, an otherwise readable state file,
\* construction succeeds, each such field takes its default value and every
\* other field keeps its persisted value, subject only to the day-rollover reset.
C19_FieldByFieldDefaults ==
    [][(last'.op = "__init__" /\ state_file.kind = "json")
          => /\ last'.ret = <<"constructed">>
             /\ \A k \in StateFields :
                    ToString(state'[k]) = ToString(FieldExpected(state_file.data, k, today))]_vars

====
